---- MODULE Spec2Model ----
(***************************************************************************)
(* Model of DataAnonymizer (src/main.py): the rule evaluator               *)
(* _apply_masking_rule, the regex classifier                               *)
(* _generate_masked_value_from_regex and the three walkers anonymize_json, *)
(* anonymize_csv and anonymize_xml.                                        *)
(*                                                                         *)
(* Python values are tagged records [t, v] so that the integer 30, the     *)
(* string "30" and None stay distinct.  A dict is the sequence of its      *)
(* items, in insertion order.  Rule strings are TLA+ strings and are taken *)
(* apart with Len and SubSeq, as the code does with startswith and slices. *)
(***************************************************************************)
EXTENDS Integers, Sequences, FiniteSets, TLC

\* ---------------------------------------------------------------- bounds
MaxRows == 2        \* longest list handed to anonymize_csv
MaxFake == 2        \* distinct values one Faker provider method can return

\* ---------------------------------------------------------------- values
StrV(s) == [t |-> "str", v |-> s]
IntV(n) == [t |-> "int", v |-> n]
FloatV(s) == [t |-> "float", v |-> s]
NoneV == [t |-> "none", v |-> ""]

MASKING_ERROR == StrV("[MASKING_ERROR]")
MASKED_VALUE == StrV("[MASKED_VALUE]")

\* ---------------------------------------------------------------- strings
StartsWith(s, p) == Len(s) >= Len(p) /\ SubSeq(s, 1, Len(p)) = p

\* s[n:]
SliceFrom(s, n) == SubSeq(s, n + 1, Len(s))

CharAt(s, i) == SubSeq(s, i, i)

Digits == "0123456789"

IsDigit(c) == \E d \in 1..10 : CharAt(Digits, d) = c

DigitVal(c) == (CHOOSE d \in 1..10 : CharAt(Digits, d) = c) - 1

RECURSIVE NatStr(_)
NatStr(n) == IF n < 10 THEN CharAt(Digits, n + 1)
             ELSE NatStr(n \div 10) \o CharAt(Digits, (n % 10) + 1)

\* str() of a Python value
PyStr(x) == CASE x.t = "int" -> IF x.v < 0 THEN "-" \o NatStr(-x.v) ELSE NatStr(x.v)
              [] x.t = "none" -> "None"
              [] OTHER -> x.v

\* index of the first occurrence of the character c in s at or after i, 0 if none
RECURSIVE Find(_, _, _)
Find(s, c, i) == IF i > Len(s) THEN 0
                 ELSE IF CharAt(s, i) = c THEN i
                 ELSE Find(s, c, i + 1)

RECURSIVE Strip(_)
Strip(s) == IF Len(s) > 0 /\ CharAt(s, 1) = " " THEN Strip(SliceFrom(s, 1))
            ELSE IF Len(s) > 0 /\ CharAt(s, Len(s)) = " " THEN Strip(SubSeq(s, 1, Len(s) - 1))
            ELSE s

\* the comma-separated pieces of an argument list, stripped
RECURSIVE SplitArgs(_)
SplitArgs(s) == IF Strip(s) = "" THEN << >>
                ELSE LET k == Find(s, ",", 1)
                     IN  IF k = 0 THEN << Strip(s) >>
                         ELSE << Strip(SubSeq(s, 1, k - 1)) >> \o SplitArgs(SliceFrom(s, k))

RECURSIVE AllDigits(_)
AllDigits(s) == Len(s) = 0 \/ (IsDigit(CharAt(s, 1)) /\ AllDigits(SliceFrom(s, 1)))

IsIntLiteral(s) == IF StartsWith(s, "-")
                   THEN Len(s) > 1 /\ AllDigits(SliceFrom(s, 1))
                   ELSE Len(s) > 0 /\ AllDigits(s)

RECURSIVE ParseNat(_, _)
ParseNat(s, acc) == IF Len(s) = 0 THEN acc
                    ELSE ParseNat(SliceFrom(s, 1), 10 * acc + DigitVal(CharAt(s, 1)))

ParseInt(s) == IF StartsWith(s, "-") THEN 0 - ParseNat(SliceFrom(s, 1), 0) ELSE ParseNat(s, 0)

\* ---------------------------------------------------------------- outcomes
\* What a call does: return a value, raise an Exception, or end the
\* interpreter (a BaseException, which `except Exception` does not catch).
Value(x) == [kind |-> "value", val |-> x]
Raise == [kind |-> "raise", val |-> NoneV]
Exit == [kind |-> "exit", val |-> NoneV]

\* ---------------------------------------------------------------- Faker
FakeMethods == {"name", "email", "ssn", "phone_number"}

Synthetic(method) == { StrV("<" \o method \o "#" \o NatStr(n) \o ">") : n \in 1..MaxFake }

\* getattr(self.fake, fake_attribute)()
FakeCall(method) == IF method \in FakeMethods
                    THEN { Value(x) : x \in Synthetic(method) }
                    ELSE { Raise }

\* ---------------------------------------------------------------- eval
\* eval(rule) for a rule that starts with "random.": the text is a Python
\* expression over the imported module `random`.
RandomAttrs == {"randint", "random", "_os._exit"}

AttrName(e) == LET k == Find(e, "(", 1)
               IN  IF k = 0 THEN SliceFrom(e, 7) ELSE SubSeq(e, 8, k - 1)

CallArgs(e) == LET k == Find(e, "(", 1) IN SplitArgs(SubSeq(e, k + 1, Len(e) - 1))

IsCall(e) == Find(e, "(", 1) > 0 /\ CharAt(e, Len(e)) = ")"

IntArgs(args) == \A n \in 1..Len(args) : IsIntLiteral(args[n])

PyEval(e) ==
    LET name == AttrName(e)
    IN  IF name \notin RandomAttrs THEN { Raise }                       \* AttributeError
        ELSE IF Find(e, "(", 1) = 0
        THEN { Value([t |-> "function", v |-> "<function " \o name \o ">"]) }
        ELSE IF ~IsCall(e) \/ ~IntArgs(CallArgs(e)) THEN { Raise }      \* SyntaxError, NameError
        ELSE LET args == CallArgs(e)
             IN  CASE name = "randint" ->
                        IF Len(args) # 2 THEN { Raise }                  \* TypeError
                        ELSE LET a == ParseInt(args[1])
                                 b == ParseInt(args[2])
                             IN  IF a > b THEN { Raise }                 \* ValueError
                                 ELSE { Value(IntV(n)) : n \in a..b }
                   [] name = "random" ->
                        IF Len(args) # 0 THEN { Raise }
                        ELSE { Value(FloatV("0.25")), Value(FloatV("0.75")) }
                   [] name = "_os._exit" ->
                        IF Len(args) # 1 THEN { Raise } ELSE { Exit }

\* ---------------------------------------------------------------- rules
SSN_PATTERN == "^\\d{3}-\\d{2}-\\d{4}$"
EMAIL_PATTERN == "^[A-Za-z0-9._%+-]+@[A-Za-z0-9.-]+\\.[A-Z|a-z]{2,}$"
PHONE_PATTERN == "^\\d{10}$"

\* an unrecognized pattern is an error instead of the placeholder
GenerateMaskedValueFromRegexStrict(regex_pattern) ==
    IF regex_pattern = SSN_PATTERN THEN FakeCall("ssn")
    ELSE IF regex_pattern = EMAIL_PATTERN THEN FakeCall("email")
    ELSE IF regex_pattern = PHONE_PATTERN THEN FakeCall("phone_number")
    ELSE { Raise }

GenerateMaskedValueFromRegex(regex_pattern) ==
    IF regex_pattern = SSN_PATTERN THEN FakeCall("ssn")
    ELSE IF regex_pattern = EMAIL_PATTERN THEN FakeCall("email")
    ELSE IF regex_pattern = PHONE_PATTERN THEN FakeCall("phone_number")
    ELSE { Value(MASKED_VALUE) }

\* "null" yields the string "null" instead of None
RuleBodyNullString(rule) ==
    IF StartsWith(rule, "fake.")
    THEN { IF o.kind = "value" THEN Value(StrV(PyStr(o.val))) ELSE o : o \in FakeCall(SliceFrom(rule, 5)) }
    ELSE IF StartsWith(rule, "random.")
    THEN { IF o.kind = "value" THEN Value(StrV(PyStr(o.val))) ELSE o : o \in PyEval(rule) }
    ELSE IF rule = "null"
    THEN { Value(StrV("null")) }
    ELSE IF StartsWith(rule, "regex:")
    THEN GenerateMaskedValueFromRegex(SliceFrom(rule, 6))
    ELSE { Value(StrV(rule)) }

\* the outcomes of the body of the try block
RuleBody(rule) ==
    IF StartsWith(rule, "fake.")
    THEN { IF o.kind = "value" THEN Value(StrV(PyStr(o.val))) ELSE o : o \in FakeCall(SliceFrom(rule, 5)) }
    ELSE IF StartsWith(rule, "random.")
    THEN { IF o.kind = "value" THEN Value(StrV(PyStr(o.val))) ELSE o : o \in PyEval(rule) }
    ELSE IF rule = "null"
    THEN { Value(NoneV) }
    ELSE IF StartsWith(rule, "regex:")
    THEN GenerateMaskedValueFromRegex(SliceFrom(rule, 6))
    ELSE { Value(StrV(rule)) }

\* try: ... except Exception: return "[MASKING_ERROR]"
ApplyMaskingRule(rule) ==
    { IF o.kind = "raise" THEN Value(MASKING_ERROR) ELSE o : o \in RuleBody(rule) }

\* the rule strings passed to eval by _apply_masking_rule
Evaluated(rule) == IF ~StartsWith(rule, "fake.") /\ StartsWith(rule, "random.") THEN { rule } ELSE {}

\* ---------------------------------------------------------------- inputs
Keys == {"name", "ssn"}

SSN_RULE == "regex:" \o SSN_PATTERN
EMAIL_RULE == "regex:" \o EMAIL_PATTERN
PHONE_RULE == "regex:" \o PHONE_PATTERN

\* the rule strings a configuration file may hold
Rules == { "fake.name", "fake.bogus",
           "random.randint(1, 2)", "random.randint(2, 1)", "random.bogus(1,2,3)",
           "random.random()", "random._os._exit(1)",
           "null", SSN_RULE, EMAIL_RULE, PHONE_RULE, "regex:unknown-pattern",
           "REDACTED", "" }

\* the rule strings tried on the second key: one of each kind of outcome
SsnRules == { SSN_RULE, "fake.bogus", "random.randint(1, 2)", "null", "" }

KeyRules(k) == IF k = "name" THEN Rules ELSE SsnRules

\* a dict of rules: a function from the keys it holds to rule strings
Tables == UNION { { T \in [D -> Rules] : \A k \in D : T[k] \in KeyRules(k) } : D \in SUBSET Keys }

EmptyTable == [k \in {} |-> ""]

\* the `config` argument: None, or a dict
NoConfig == [isNone |-> TRUE, table |-> EmptyTable]
ConfigArgs == { NoConfig } \cup { [isNone |-> FALSE, table |-> T] : T \in Tables }

\* the configurations an instance is constructed with
SelfConfigs == { EmptyTable, [k \in {"name"} |-> "SELF"] }

Item(k, x) == [k |-> k, v |-> x]

FieldValues == { StrV("John Doe"), IntV(30) }

\* dicts of at most two items with distinct keys, in either key order
Records == { << >> }
           \cup { << Item(k, x) >> : k \in Keys, x \in FieldValues }
           \cup { << Item(ks[1], x1), Item(ks[2], x2) >> :
                     ks \in { p \in Keys \X Keys : p[1] # p[2] }, x1 \in FieldValues, x2 \in FieldValues }

\* rows as csv.DictReader yields them: one header, string cells
CsvRows == { << Item("name", StrV(n)), Item("ssn", StrV("123-45-6789")) >> : n \in {"John Doe", "Jane Smith"} }

RowLists == UNION { [1..n -> CsvRows] : n \in 0..MaxRows }

Elem(tag, text, children) == [tag |-> tag, text |-> text, children |-> children]

\* element trees: node 1 is the root, children are lists of node numbers
TreePerson == << Elem("root", NoneV, <<2>>), Elem("person", NoneV, <<3, 4>>),
                 Elem("name", StrV("John Doe"), << >>), Elem("ssn", StrV("123-45-6789"), << >>) >>
TreeNested == << Elem("name", StrV("top"), <<2>>), Elem("name", StrV("outer"), <<3, 4>>),
                 Elem("name", StrV("inner"), << >>), Elem("ssn", StrV("123-45-6789"), << >>) >>
TreeTwo == << Elem("root", NoneV, <<2, 3>>), Elem("person", NoneV, <<4>>), Elem("person", NoneV, <<5, 6>>),
              Elem("name", StrV("John Doe"), << >>), Elem("ssn", StrV("987-65-4321"), << >>),
              Elem("name", StrV("Jane Smith"), << >>) >>
TreeLeaf == << Elem("ssn", StrV("123-45-6789"), << >>) >>

Trees == { TreePerson, TreeNested, TreeTwo, TreeLeaf }

\* ---------------------------------------------------------------- dicts
HasKey(d, k) == \E n \in 1..Len(d) : d[n].k = k

\* the item is put in front of the dict instead of after its last item
DictSetFront(d, k, x) == IF HasKey(d, k)
                         THEN [n \in 1..Len(d) |-> IF d[n].k = k THEN Item(k, x) ELSE d[n]]
                         ELSE << Item(k, x) >> \o d

\* d[k] = x
DictSet(d, k, x) == IF HasKey(d, k)
                    THEN [n \in 1..Len(d) |-> IF d[n].k = k THEN Item(k, x) ELSE d[n]]
                    ELSE Append(d, Item(k, x))

DictKeys(d) == [n \in 1..Len(d) |-> d[n].k]

DictGet(d, k) == d[CHOOSE n \in 1..Len(d) : d[n].k = k].v

\* ---------------------------------------------------------------- state
\* self_config: self.config; arg: the `config` argument as the caller passed it;
\* config: the local `config` after `config = config or self.config`;
\* data: the input (dict, list of dicts, or parsed element tree);
\* row, j, anonymized_data: the frame of _anonymize_data; i, anonymized_rows: the
\* frame of anonymize_csv; tree: the element tree being masked in place;
\* stack: the frames of _anonymize_xml_element; visited: the elements it was
\* called on, in call order; executed: the strings handed to eval.
VARIABLES self_config, arg, pc, mode, config, data, row, j, anonymized_data,
          i, anonymized_rows, tree, stack, visited, executed

vars == << self_config, arg, pc, mode, config, data, row, j, anonymized_data,
           i, anonymized_rows, tree, stack, visited, executed >>

\* DataAnonymizer(config_file)
Init == /\ self_config \in SelfConfigs
        /\ arg = NoConfig
        /\ pc = "idle"
        /\ mode = "none"
        /\ config = EmptyTable
        /\ data = << >>
        /\ row = << >>
        /\ j = 1
        /\ anonymized_data = << >>
        /\ i = 1
        /\ anonymized_rows = << >>
        /\ tree = << >>
        /\ stack = << >>
        /\ visited = << >>
        /\ executed = {}

\* config = config if config is not None else self.config
EffectiveConfigNotNone(passed, own) ==
    IF ~passed.isNone THEN passed.table ELSE own

\* config = config or self.config
EffectiveConfig(passed, own) ==
    IF ~passed.isNone /\ DOMAIN passed.table # {} THEN passed.table ELSE own

\* anonymize_json(data, config): enters _anonymize_data(data, config)
AnonymizeJson == \E d \in Records, c \in ConfigArgs :
    /\ pc = "idle"
    /\ mode' = "json"
    /\ arg' = c
    /\ config' = EffectiveConfig(c, self_config)
    /\ data' = d
    /\ row' = d
    /\ j' = 1
    /\ anonymized_data' = << >>
    /\ pc' = "fields"
    /\ UNCHANGED << self_config, i, anonymized_rows, tree, stack, visited, executed >>

\* anonymize_csv(data, config), up to the row loop
AnonymizeCsv == \E d \in RowLists, c \in ConfigArgs :
    /\ pc = "idle"
    /\ mode' = "csv"
    /\ arg' = c
    /\ config' = EffectiveConfig(c, self_config)
    /\ data' = d
    /\ anonymized_rows' = << >>
    /\ i' = 1
    /\ pc' = "rows"
    /\ UNCHANGED << self_config, row, j, anonymized_data, tree, stack, visited, executed >>

\* for row in data: enters _anonymize_data(row, config)
CsvRow ==
    /\ pc = "rows"
    /\ i <= Len(data)
    /\ row' = data[i]
    /\ j' = 1
    /\ anonymized_data' = << >>
    /\ pc' = "fields"
    /\ UNCHANGED << self_config, arg, mode, config, data, i, anonymized_rows, tree, stack, visited, executed >>

\* return anonymized_data, at the end of anonymize_csv
CsvReturn ==
    /\ pc = "rows"
    /\ i > Len(data)
    /\ pc' = "done"
    /\ UNCHANGED << self_config, arg, mode, config, data, row, j, anonymized_data,
                    i, anonymized_rows, tree, stack, visited, executed >>

\* an unmasked value is stored as its string form
FieldResultsCoerced(cfg, key, value) ==
    IF key \in DOMAIN cfg /\ cfg[key] # ""
    THEN ApplyMaskingRule(cfg[key])
    ELSE { Value(StrV(PyStr(value))) }

\* rule = config.get(key); if rule: _apply_masking_rule(rule) else: value
FieldResults(cfg, key, value) ==
    IF key \in DOMAIN cfg /\ cfg[key] # ""
    THEN ApplyMaskingRule(cfg[key])
    ELSE { Value(value) }

FieldEvaluated(cfg, key) ==
    IF key \in DOMAIN cfg /\ cfg[key] # "" THEN Evaluated(cfg[key]) ELSE {}

\* one iteration of `for key, value in data.items()` in _anonymize_data
MaskField ==
    /\ pc = "fields"
    /\ j <= Len(row)
    /\ LET key == row[j].k
           value == row[j].v
       IN  /\ executed' = executed \cup FieldEvaluated(config, key)
           /\ \E o \in FieldResults(config, key, value) :
                 IF o.kind = "exit"
                 THEN /\ pc' = "aborted"
                      /\ UNCHANGED << anonymized_data, j >>
                 ELSE /\ anonymized_data' = DictSet(anonymized_data, key, o.val)
                      /\ j' = j + 1
                      /\ pc' = pc
    /\ UNCHANGED << self_config, arg, mode, config, data, row, i, anonymized_rows, tree, stack, visited >>

\* the finished row is inserted at the head of the list instead of appended
DataReturnFront ==
    /\ pc = "fields"
    /\ j > Len(row)
    /\ IF mode = "csv"
       THEN /\ anonymized_rows' = << anonymized_data >> \o anonymized_rows
            /\ i' = i + 1
            /\ pc' = "rows"
       ELSE /\ pc' = "done"
            /\ UNCHANGED << anonymized_rows, i >>
    /\ UNCHANGED << self_config, arg, mode, config, data, row, j, anonymized_data, tree, stack, visited, executed >>

\* return anonymized_data, at the end of _anonymize_data
DataReturn ==
    /\ pc = "fields"
    /\ j > Len(row)
    /\ IF mode = "csv"
       THEN /\ anonymized_rows' = Append(anonymized_rows, anonymized_data)
            /\ i' = i + 1
            /\ pc' = "rows"
       ELSE /\ pc' = "done"
            /\ UNCHANGED << anonymized_rows, i >>
    /\ UNCHANGED << self_config, arg, mode, config, data, row, j, anonymized_data, tree, stack, visited, executed >>

Frame(el, idx) == [el |-> el, idx |-> idx]

\* anonymize_xml(xml_string, config): parses and enters _anonymize_xml_element(root, config)
AnonymizeXml == \E t \in Trees, c \in ConfigArgs :
    /\ pc = "idle"
    /\ mode' = "xml"
    /\ arg' = c
    /\ config' = EffectiveConfig(c, self_config)
    /\ data' = t
    /\ tree' = t
    /\ stack' = << Frame(1, 1) >>
    /\ visited' = << 1 >>
    /\ pc' = "walk"
    /\ UNCHANGED << self_config, row, j, anonymized_data, i, anonymized_rows, executed >>

\* if child.tag in config: child.text = _apply_masking_rule(config[child.tag])
ChildResults(cfg, tag, text) ==
    IF tag \in DOMAIN cfg THEN ApplyMaskingRule(cfg[tag]) ELSE { Value(text) }

ChildEvaluated(cfg, tag) == IF tag \in DOMAIN cfg THEN Evaluated(cfg[tag]) ELSE {}

\* the walker recurses into a child only when it did not mask it
XmlChildSkipMasked ==
    /\ pc = "walk"
    /\ stack # << >>
    /\ LET top == stack[Len(stack)]
           kids == tree[top.el].children
       IN  /\ top.idx <= Len(kids)
           /\ LET child == kids[top.idx]
                  tag == tree[child].tag
              IN  /\ executed' = executed \cup ChildEvaluated(config, tag)
                  /\ \E o \in ChildResults(config, tag, tree[child].text) :
                        IF o.kind = "exit"
                        THEN /\ pc' = "aborted"
                             /\ UNCHANGED << tree, stack, visited >>
                        ELSE /\ tree' = [tree EXCEPT ![child].text = o.val]
                             /\ IF tag \in DOMAIN config
                                THEN /\ stack' = [stack EXCEPT ![Len(stack)].idx = top.idx + 1]
                                     /\ visited' = visited
                                ELSE /\ stack' = Append([stack EXCEPT ![Len(stack)].idx = top.idx + 1],
                                                        Frame(child, 1))
                                     /\ visited' = Append(visited, child)
                             /\ pc' = pc
    /\ UNCHANGED << self_config, arg, mode, config, data, row, j, anonymized_data, i, anonymized_rows >>

\* one iteration of `for child in element` in _anonymize_xml_element: mask the
\* child, then call _anonymize_xml_element(child, config)
XmlChild ==
    /\ pc = "walk"
    /\ stack # << >>
    /\ LET top == stack[Len(stack)]
           kids == tree[top.el].children
       IN  /\ top.idx <= Len(kids)
           /\ LET child == kids[top.idx]
                  tag == tree[child].tag
              IN  /\ executed' = executed \cup ChildEvaluated(config, tag)
                  /\ \E o \in ChildResults(config, tag, tree[child].text) :
                        IF o.kind = "exit"
                        THEN /\ pc' = "aborted"
                             /\ UNCHANGED << tree, stack, visited >>
                        ELSE /\ tree' = [tree EXCEPT ![child].text = o.val]
                             /\ stack' = Append([stack EXCEPT ![Len(stack)].idx = top.idx + 1],
                                                Frame(child, 1))
                             /\ visited' = Append(visited, child)
                             /\ pc' = pc
    /\ UNCHANGED << self_config, arg, mode, config, data, row, j, anonymized_data, i, anonymized_rows >>

\* the loop of _anonymize_xml_element ends; the outermost call returns to anonymize_xml
XmlReturn ==
    /\ pc = "walk"
    /\ stack # << >>
    /\ LET top == stack[Len(stack)]
       IN  top.idx > Len(tree[top.el].children)
    /\ stack' = SubSeq(stack, 1, Len(stack) - 1)
    /\ pc' = IF Len(stack) = 1 THEN "done" ELSE pc
    /\ UNCHANGED << self_config, arg, mode, config, data, row, j, anonymized_data,
                    i, anonymized_rows, tree, visited, executed >>

Next == \/ AnonymizeJson
        \/ AnonymizeCsv
        \/ CsvRow
        \/ CsvReturn
        \/ MaskField
        \/ DataReturn
        \/ AnonymizeXml
        \/ XmlChild
        \/ XmlReturn

Spec == Init /\ [][Next]_vars

\* ---------------------------------------------------------------- observations
Missing == [t |-> "missing", v |-> ""]

OutVal(d, k) == IF HasKey(d, k) THEN DictGet(d, k) ELSE Missing

Field(key, old, new) == [key |-> key, old |-> old, new |-> new]

\* the items _anonymize_data has handled in its current (or last) call
FrameFields == { Field(row[n].k, row[n].v, OutVal(anonymized_data, row[n].k)) : n \in 1..(j - 1) }

\* the items of the rows anonymize_csv has finished
RowFields(m) == { Field(data[m][n].k, data[m][n].v, OutVal(anonymized_rows[m], data[m][n].k)) :
                    n \in 1..Len(data[m]) }

CsvFields == IF mode = "csv" THEN UNION { RowFields(m) : m \in 1..Len(anonymized_rows) } ELSE {}

\* the elements _anonymize_xml_element has handled as a child
XmlFields == IF mode = "xml"
             THEN { Field(tree[visited[n]].tag, data[visited[n]].text, tree[visited[n]].text) :
                      n \in 2..Len(visited) }
             ELSE {}

Fields == FrameFields \cup CsvFields \cup XmlFields

\* ---------------------------------------------------------------- claims

\* C1: in mapping, sequence and tree mode, a field or element whose key or tag
\* has no entry in the rule table has the same value, of the same type, in the
\* output as in the input; in tree mode this holds of every element, handled
\* or not.
C1_AbsentUnchanged ==
    /\ \A f \in Fields : f.key \notin DOMAIN config => f.new = f.old
    /\ mode = "xml" => \A n \in 1..Len(tree) :
                          tree[n].tag \notin DOMAIN config => tree[n].text = data[n].text

\* a finished record with an integer field that has no rule, next to a masked field
C1_Witness ==
    /\ mode = "json" /\ pc = "done"
    /\ \E f \in FrameFields : f.key \notin DOMAIN config /\ f.old.t = "int" /\ f.new = f.old
    /\ \E f \in FrameFields : f.key \in DOMAIN config /\ f.new # f.old

\* the values a rule's evaluation can return
RuleValues(rule) == { o.val : o \in { x \in ApplyMaskingRule(rule) : x.kind = "value" } }

\* the items handled in mapping mode, alone or under sequence mode
MappingFields == FrameFields \cup CsvFields

\* C2: in mapping mode every key of the record that has an entry in the rule
\* table, whatever string the entry holds (the empty string included), gets the
\* result of evaluating that rule; only keys with no entry keep their value.
C2_EntryAlwaysApplied ==
    \A f \in MappingFields :
        IF f.key \in DOMAIN config
        THEN f.new \in RuleValues(config[f.key])
        ELSE f.new = f.old

\* "random.randint(<int>, <int>)"
IsRandintShape(r) ==
    /\ StartsWith(r, "random.")
    /\ AttrName(r) = "randint"
    /\ IsCall(r)
    /\ Len(CallArgs(r)) = 2
    /\ IntArgs(CallArgs(r))

RandintMin(r) == ParseInt(CallArgs(r)[1])
RandintMax(r) == ParseInt(CallArgs(r)[2])

\* the rule applied to a handled item, "" when none is
AppliedRule(f) == IF f.key \in DOMAIN config THEN config[f.key] ELSE ""

\* C3: a "random."-prefixed rule yields a random integer only in the shape
\* randint(min, max) with integer bounds; any other "random."-prefixed rule
\* yields the error marker, and its text is never executed as an expression.
C3_RandomOnlyRandint ==
    /\ \A r \in executed : IsRandintShape(r)
    /\ \A f \in Fields :
          StartsWith(AppliedRule(f), "random.") /\ ~IsRandintShape(AppliedRule(f))
             => f.new = MASKING_ERROR

\* a rule whose evaluation fails: unknown synthetic field, a "random." rule that
\* is not randint(min, max), or randint with min > max
FailingRule(r) ==
    \/ StartsWith(r, "fake.") /\ SliceFrom(r, 5) \notin FakeMethods
    \/ StartsWith(r, "random.") /\ ~IsRandintShape(r)
    \/ IsRandintShape(r) /\ RandintMin(r) > RandintMax(r)

SiblingsMasked(fs) ==
    (\E f \in fs : f.key \in DOMAIN config /\ FailingRule(config[f.key]))
       => \A g \in fs : g.key \in DOMAIN config => g.new \in RuleValues(config[g.key])

\* C4: a failing rule never aborts the run: the failing field holds the error
\* sentinel, every other field of the same record that has a rule is masked by
\* that rule, and the records that follow are processed.
C4_FailureContained ==
    /\ pc # "aborted"
    /\ \A f \in MappingFields :
          f.key \in DOMAIN config /\ FailingRule(config[f.key]) => f.new = MASKING_ERROR
    /\ SiblingsMasked(FrameFields)
    /\ mode = "csv" => \A m \in 1..Len(anonymized_rows) : SiblingsMasked(RowFields(m))
    /\ mode = "csv" /\ pc = "done" => Len(anonymized_rows) = Len(data)

\* C5: the output of mapping mode has the keys of the input record, in the
\* input's order, after every iteration and at the end, masked or not.
C5_KeysPreserved ==
    /\ DictKeys(anonymized_data) = SubSeq(DictKeys(row), 1, j - 1)
    /\ mode = "json" /\ pc = "done" => DictKeys(anonymized_data) = DictKeys(data)
    /\ mode = "csv" => \A m \in 1..Len(anonymized_rows) :
                          DictKeys(anonymized_rows[m]) = DictKeys(data[m])

\* a finished two-key record in the order ssn, name, one key masked and one kept
C5_Witness ==
    /\ mode = "json" /\ pc = "done"
    /\ DictKeys(data) = << "ssn", "name" >>
    /\ DictKeys(anonymized_data) = << "ssn", "name" >>
    /\ \E f \in FrameFields : f.new # f.old
    /\ \E f \in FrameFields : f.new = f.old

RECURSIVE PreOrder(_, _)
RECURSIVE PreOrderAll(_, _)
\* the elements under n, n first, depth first, children in document order
PreOrder(t, n) == << n >> \o PreOrderAll(t, t[n].children)
PreOrderAll(t, kids) == IF kids = << >> THEN << >>
                        ELSE PreOrder(t, Head(kids)) \o PreOrderAll(t, Tail(kids))

InSeq(x, sq) == \E n \in 1..Len(sq) : sq[n] = x

\* C6: tree mode calls the walker on the root and then on every descendant in
\* depth-first pre-order, masked or not; a child whose tag has a rule holds the
\* rule's value by the time the walker is called on it, and an element the
\* walker has not reached is untouched; tags, child order and nesting never
\* change, and only the text of non-root elements with a rule changes.
C6_TreeWalk ==
    mode = "xml" =>
      /\ Len(visited) <= Len(PreOrder(data, 1))
      /\ visited = SubSeq(PreOrder(data, 1), 1, Len(visited))
      /\ pc = "done" => visited = PreOrder(data, 1)
      /\ Len(tree) = Len(data)
      /\ \A n \in 1..Len(tree) :
            /\ tree[n].tag = data[n].tag
            /\ tree[n].children = data[n].children
            /\ (n = 1 \/ tree[n].tag \notin DOMAIN config \/ ~InSeq(n, visited))
                  => tree[n].text = data[n].text
      /\ \A k \in 2..Len(visited) :
            tree[visited[k]].tag \in DOMAIN config
               => tree[visited[k]].text \in RuleValues(config[tree[visited[k]].tag])

\* a finished walk of the tree whose masked element has children: the inner
\* elements were reached and masked, the root kept its text
C6_Witness ==
    /\ mode = "xml" /\ pc = "done"
    /\ data = TreeNested
    /\ "name" \in DOMAIN config
    /\ tree[2].text # data[2].text
    /\ tree[3].text # data[3].text
    /\ tree[1].text = data[1].text
    /\ visited = << 1, 2, 3, 4 >>

\* C7: a "regex:" rule never fails and its value depends on the pattern text
\* alone: the SSN, email and phone patterns give a value of that synthetic
\* category, any other pattern gives "[MASKED_VALUE]".
C7_RegexRule ==
    \A f \in Fields :
        StartsWith(AppliedRule(f), "regex:") =>
            LET pattern == SliceFrom(AppliedRule(f), 6)
            IN  CASE pattern = "^\\d{3}-\\d{2}-\\d{4}$" -> f.new \in Synthetic("ssn")
                  [] pattern = "^[A-Za-z0-9._%+-]+@[A-Za-z0-9.-]+\\.[A-Z|a-z]{2,}$" -> f.new \in Synthetic("email")
                  [] pattern = "^\\d{10}$" -> f.new \in Synthetic("phone_number")
                  [] OTHER -> f.new = StrV("[MASKED_VALUE]")

\* a record with one field under the SSN pattern and one under an unknown pattern
C7_Witness ==
    /\ mode = "json" /\ pc = "done"
    /\ \E f \in FrameFields : AppliedRule(f) = SSN_RULE /\ f.new \in Synthetic("ssn")
    /\ \E f \in FrameFields : AppliedRule(f) = "regex:unknown-pattern" /\ f.new = MASKED_VALUE

\* C8: in every mode a field or element masked by the rule "null" holds None,
\* not the string "null".
C8_NullRule ==
    \A f \in Fields : AppliedRule(f) = "null" => f.new = NoneV /\ f.new # StrV("null")

\* a finished walk in which an element that had text was masked by "null"
C8_Witness ==
    /\ mode = "xml" /\ pc = "done"
    /\ \E f \in XmlFields : AppliedRule(f) = "null" /\ f.old # NoneV /\ f.new = NoneV

\* out is a mapping-mode result of the record rec
IsMappingResult(rec, out) ==
    /\ DictKeys(out) = DictKeys(rec)
    /\ \A n \in 1..Len(rec) : out[n].v \in { o.val : o \in FieldResults(config, rec[n].k, rec[n].v) }

C9_Rows ==
    mode = "csv" =>
      /\ Len(anonymized_rows) <= Len(data)
      /\ pc = "done" => Len(anonymized_rows) = Len(data)
      /\ \A m \in 1..Len(anonymized_rows) : IsMappingResult(data[m], anonymized_rows[m])

C9_Frame ==
    pc # "idle" =>
      /\ data' = data
      /\ config' = config
      /\ self_config' = self_config
      /\ Len(anonymized_rows') >= Len(anonymized_rows)
      /\ \A m \in 1..Len(anonymized_rows) : anonymized_rows'[m] = anonymized_rows[m]

\* C9: sequence mode returns as many records as it was given, the i-th being a
\* mapping-mode result of the i-th input; a finished output record is never
\* changed by the masking of another, and the input and the rule tables are
\* never written.
C9_SequenceMode == []C9_Rows /\ [][C9_Frame]_vars

\* two different rows, both finished, with a masked and a kept field
C9_Witness ==
    /\ mode = "csv" /\ pc = "done"
    /\ Len(data) = 2 /\ Len(anonymized_rows) = 2
    /\ data[1] # data[2]
    /\ \E f \in RowFields(1) : f.new # f.old
    /\ \E f \in RowFields(2) : f.new = f.old

ArgGiven == ~arg.isNone /\ DOMAIN arg.table # {}

\* C10: a non-empty table passed by the caller is the only one applied; the
\* instance's table is applied exactly when the passed one is None or empty.
C10_ConfigChoice ==
    pc # "idle" =>
      /\ ArgGiven => config = arg.table
      /\ ~ArgGiven => config = self_config
      /\ \A f \in Fields :
            IF ArgGiven
            THEN f.key \notin DOMAIN arg.table => f.new = f.old
            ELSE /\ f.key \in DOMAIN self_config => f.new = StrV(self_config[f.key])
                 /\ f.key \notin DOMAIN self_config => f.new = f.old

\* an empty dict is passed to an instance that has a rule, and the rule is applied
C10_Witness ==
    /\ mode = "json" /\ pc = "done"
    /\ ~arg.isNone /\ DOMAIN arg.table = {}
    /\ DOMAIN self_config # {}
    /\ \E f \in FrameFields : f.key \in DOMAIN self_config /\ f.new = StrV(self_config[f.key])

====
